---- MODULE Spec2Model ----
(***************************************************************************)
(* lib_concurrent: the multi-sender / multi-receiver channel of mrms.rs    *)
(* over the spin lock of spinlock.rs and the shared cell of floater.rs.    *)
(*                                                                         *)
(* Every handle (MRMSSender / MRMSReceiver) is driven by its own thread.   *)
(* A call is split at each access to shared memory: the compare-and-swap   *)
(* of the lock word, the load of a liveness counter, the queue mutation,   *)
(* the store that releases the lock, the fetch_add / fetch_sub of clone    *)
(* and drop, and the Arc reference count of the Floater.  Every atomic     *)
(* location has one modification order and a read-modify-write reads the   *)
(* last value in it, so the interleaving of these steps is the behaviour   *)
(* of the lock word and of the counters under any Ordering argument.       *)
(* The queue is only touched between a successful swap and the release     *)
(* store, and in Spec, TestSpec, LockSpec and GuardSpec its accesses are   *)
(* interleaved like the atomic ones.  What the Relaxed store of            *)
(* spinlock.rs:110 lets another core see of the queue is the subject of    *)
(* OrderSpec alone, where a holder's write reaches memory in a step of its *)
(* own and only a publishing release waits for it.                         *)
(*                                                                         *)
(* mrms.rs calls poll() and release() on the ChannelCore through the Lock  *)
(* trait; the implementation of Lock in the sources is AtomicLocker's, on  *)
(* the word that LoanLock::loan hands out, and that is what the channel's  *)
(* lock steps follow (no deadline: a failed swap is the `is_err` case).    *)
(***************************************************************************)
EXTENDS Integers, Sequences, FiniteSets, TLC

\* ---------------------------------------------------------------- bounds
MaxHandles == 3      \* handles that ever exist (the initial pair + clones)
MaxItems   == 2      \* send calls made in the free-running specification
UsizeBits  == 8      \* width of the model's usize (the counters wrap mod 2^w)
TestN      == 3      \* values the test's sender loop sends (0..10 in the test)
MaxLockers == 2      \* AtomicLocker objects built over one lock word
MaxTime    == 2      \* ticks of the monotonic clock (Instant)
MaxPeriod  == 1      \* longest deadline handed to into_timeout, in ticks
CapacityHint == 1    \* the `size` handed to channel() (the test hands it 20)

Handles == 1..MaxHandles
Lockers == 1..MaxLockers
Items   == 1..MaxItems
NoItem  == 0         \* Option::None / the unit payload ()

VARIABLES
    send,      \* ChannelCore.send : AtomicUsize, senders alive
    recv,      \* ChannelCore.recv : AtomicUsize, receivers alive
    lock,      \* ChannelCore.lock : AtomicUsize, 0 free / 1 held
    data,      \* ChannelCore.data : VecDeque<T>
    rc,        \* strong count of the Arc inside the Floater
    role,      \* handle -> "S" (MRMSSender) | "R" (MRMSReceiver) | "none"
    pc,        \* handle -> position of the thread that drives it
    arg,       \* handle -> the item of the call in progress (send: `data`, recv: `x`)
    ret,       \* handle -> what the last call returned
    nextItem,  \* number of items handed to send so far (items are 1, 2, ...)
    sentBy,    \* history: sentBy[i] is the handle whose send call was given item i
    appended,  \* history: items in the order ChannelCore::append ran
    popped,    \* history: items in the order ChannelCore::pop returned Some
    did,       \* handle -> queue mutations made by the call in progress / last call
    atCall,    \* handle -> what the channel looked like when the last call began
    clones,    \* role -> fetch_add(1) executed by Clone::clone
    drops,     \* role -> fetch_sub(1) executed by Drop::drop
    x,         \* test_mrms_channel: the sender loop's `x` (1-based)
    output,    \* test_mrms_channel: the receiver's `output` vector
    now,       \* the monotonic clock read by Instant::now() / Instant::elapsed()
    lk,        \* locker -> the AtomicLocker / Convar built over the lock word and its user
    buf        \* locker -> its writes to the guarded queue not yet visible to other cores

core    == <<send, recv, lock, data, rc>>
threads == <<role, pc, arg, ret>>
ghost   == <<nextItem, sentBy, appended, popped, did, atCall, clones, drops>>
test    == <<x, output>>
locks   == <<now, lk, buf>>
vars    == <<send, recv, lock, data, rc, role, pc, arg, ret,
             nextItem, sentBy, appended, popped, did, atCall, clones, drops, x, output,
             now, lk, buf>>

\* ------------------------------------------------------- lib.rs : Async
Ok(v)    == [kind |-> "Ok",    val |-> v]
Block(v) == [kind |-> "Block", val |-> v]
Err(v)   == [kind |-> "Err",   val |-> v]
NoRet    == [kind |-> "none",  val |-> NoItem]

\* ------------------------------------------------ atomics (usize words)
Usize == 2 ^ UsizeBits

fetch_add(word, n) == (word + n) % Usize

\* Mutant: the drop adds instead of subtracting.
fetch_sub_adds(word, n) == (word + n) % Usize

fetch_sub(word, n) == (word - n + Usize) % Usize

\* Mutant: an unconditional swap that always reports the expected value.
swap_unconditional(word, current, new) == [word |-> new, prev |-> current]

\* Mutant: a failed swap writes `free` to the word.
compare_and_swap_resets(word, current, new) ==
    [word |-> IF word = current THEN new ELSE 0, prev |-> word]

\* AtomicUsize::compare_and_swap: the new value of the word and the value read.
compare_and_swap(word, current, new) ==
    [word |-> IF word = current THEN new ELSE word, prev |-> word]

\* Mutant: the release stores `held`.
release_held == 0 + 1

\* spinlock.rs Lock::release: the value stored to the lock word.
release == 0

\* ------------------------------------------------ spinlock.rs : AtomicLocker
None == -1           \* Option::None of `start` and `period`

NoLocker == [pc |-> "none", holds |-> FALSE, start |-> None, period |-> None,
             ret |-> "none", flag |-> FALSE, rel |-> 0]

\* Instant::elapsed
elapsed(start) == now - start

\* Mutant: `>` for `>=`.
check_timeout_late(period, start) ==
    IF period = None THEN "Block"
    ELSE IF elapsed(start) > period THEN "Timeout" ELSE "Block"

\* Mutant: the deadline is measured from the clock's origin, not from `start`.
check_timeout_abs(period, start) ==
    IF period = None THEN "Block"
    ELSE IF now >= period THEN "Timeout" ELSE "Block"

\* The `match self.period` of AtomicLocker::poll, reached when the swap failed.
check_timeout(period, start) ==
    IF period = None THEN "Block"
    ELSE IF elapsed(start) >= period THEN "Timeout" ELSE "Block"

\* ------------------------------------------------------ floater.rs : Floater
\* Mutant: the pointer is copied without counting the new owner.
arc_clone_shared(n) == n

\* Floater::clone, `self.data.clone()`: the strong count of the Arc after it.
arc_clone(n) == n + 1

\* A handle's Floater is dropped: the strong count after it; at 0 the
\* ChannelCore is freed.
arc_drop(n) == n - 1

\* --------------------------------------------------- mrms.rs : ChannelCore
\* ChannelCore::new, `VecDeque::with_capacity(size)`: an empty queue; the
\* hint only sizes the first allocation.
with_capacity(size) == <<>>

\* Mutant: a queue that is full at its capacity hint drops the item.
append_bounded(q, v) == IF Len(q) >= CapacityHint THEN q ELSE Append(q, v)

\* Mutant: push_front.
append_front(q, v) == <<v>> \o q

\* Mutant: the item is dropped.
append_lost(q, v) == q

append(q, v) == Append(q, v)

\* Mutant: the item at the back is handed out.
pop_item_back(q) == IF Len(q) = 0 THEN NoItem ELSE q[Len(q)]

\* VecDeque::pop_front: the item removed (None on an empty queue) ...
pop_item(q) == IF Len(q) = 0 THEN NoItem ELSE Head(q)

\* Mutant: the front is read but not removed.
pop_keeps(q) == q

\* ... and the queue it leaves.
pop_rest(q) == IF Len(q) = 0 THEN q ELSE Tail(q)

send_count == send

\* Mutant: the wrong counter is loaded.
recv_count_of_send == send

recv_count == recv

\* mrms.rs:88, `ptr.recv_count() == 0`: nobody is left to receive.
no_receiver(n) == n = 0

\* Mutant: the sender counter is not looked at.
drained_empty(q, n) == Len(q) = 0

\* Mutant: `||` for `&&`.
drained_either(q, n) == Len(q) = 0 \/ n = 0

\* mrms.rs:133, `ptr.data.len() == 0 && ptr.send_count() == 0`: drained and closed.
drained(q, n) == Len(q) = 0 /\ n = 0

Gone(r)  == \A h \in Handles : role[h] = r => pc[h] = "dead"
Unborn   == {h \in Handles : pc[h] = "unborn"}
Cloning  == {h \in Handles : pc[h] = "c_arc"}
InCS     == {h \in Handles : pc[h] \in {"s_check", "s_append", "s_rel_ok", "s_rel_err",
                                        "r_check", "r_pop", "r_rel_ok", "r_rel_err"}}

\* mrms.rs channel(): Floater::new, two clones of it, the original dropped.
Init ==
    /\ send = 1 /\ recv = 1 /\ lock = 0 /\ data = with_capacity(CapacityHint) /\ rc = 2
    /\ role = [h \in Handles |-> IF h = 1 THEN "S" ELSE IF h = 2 THEN "R" ELSE "none"]
    /\ pc = [h \in Handles |-> IF h \in {1, 2} THEN "idle" ELSE "unborn"]
    /\ arg = [h \in Handles |-> NoItem]
    /\ ret = [h \in Handles |-> NoRet]
    /\ nextItem = 0 /\ sentBy = <<>> /\ appended = <<>> /\ popped = <<>>
    /\ did = [h \in Handles |-> 0]
    /\ atCall = [h \in Handles |-> "none"]
    /\ clones = [r \in {"S", "R"} |-> 0]
    /\ drops = [r \in {"S", "R"} |-> 0]
    /\ x = 1 /\ output = <<>>
    /\ now = 0
    /\ lk = [l \in Lockers |-> NoLocker]
    /\ buf = [l \in Lockers |-> <<>>]

\* What a call sees of the channel when it begins.
Phase(r) ==
    IF r = "S" THEN (IF Gone("R") THEN "closed" ELSE "open")
    ELSE IF Gone("S") /\ Len(data) = 0 THEN "closed"
    ELSE IF Gone("S") THEN "draining" ELSE "open"

\* ------------------------------------------------- MRMSSender::send
\* The call begins: `let mut ptr = self.data.get_mut()`.
SendCall(h, v) ==
    /\ role[h] = "S" /\ pc[h] = "idle"
    /\ pc' = [pc EXCEPT ![h] = "s_poll"]
    /\ arg' = [arg EXCEPT ![h] = v]
    /\ ret' = [ret EXCEPT ![h] = NoRet]
    /\ did' = [did EXCEPT ![h] = 0]
    /\ atCall' = [atCall EXCEPT ![h] = Phase("S")]

\* `if ptr.poll().is_err() { return Async::Block(data); }`
SendPoll(h) ==
    /\ pc[h] = "s_poll"
    /\ LET cas == compare_and_swap(lock, 0, 1) IN
        /\ lock' = cas.word
        /\ IF cas.prev = 0
             THEN pc' = [pc EXCEPT ![h] = "s_check"] /\ ret' = ret
             ELSE pc' = [pc EXCEPT ![h] = "idle"]
                  /\ ret' = [ret EXCEPT ![h] = Block(arg[h])]
    /\ UNCHANGED <<send, recv, data, rc, role, arg, ghost, test, locks>>

\* `if ptr.recv_count() == 0 { ... }`
SendCheck(h) ==
    /\ pc[h] = "s_check"
    /\ pc' = [pc EXCEPT ![h] = IF no_receiver(recv_count) THEN "s_rel_err" ELSE "s_append"]
    /\ UNCHANGED <<core, role, arg, ret, ghost, test, locks>>

\* `ptr.append(data);`
SendAppend(h) ==
    /\ pc[h] = "s_append"
    /\ data' = append(data, arg[h])
    /\ appended' = Append(appended, arg[h])
    /\ did' = [did EXCEPT ![h] = @ + 1]
    /\ pc' = [pc EXCEPT ![h] = "s_rel_ok"]
    /\ UNCHANGED <<send, recv, lock, rc, role, arg, ret,
                   nextItem, sentBy, popped, atCall, clones, drops, test, locks>>

\* `ptr.release(); return Async::Err(data);` and `ptr.release(); Async::Ok(())`
SendRelease(h) ==
    /\ pc[h] \in {"s_rel_ok", "s_rel_err"}
    /\ lock' = release
    /\ ret' = [ret EXCEPT ![h] = IF pc[h] = "s_rel_ok" THEN Ok(NoItem) ELSE Err(arg[h])]
    /\ pc' = [pc EXCEPT ![h] = "idle"]
    /\ UNCHANGED <<send, recv, data, rc, role, arg, ghost, test, locks>>

\* ------------------------------------------------- MRMSReceiver::recv
RecvCall(h) ==
    /\ role[h] = "R" /\ pc[h] = "idle"
    /\ pc' = [pc EXCEPT ![h] = "r_poll"]
    /\ arg' = [arg EXCEPT ![h] = NoItem]
    /\ ret' = [ret EXCEPT ![h] = NoRet]
    /\ did' = [did EXCEPT ![h] = 0]
    /\ atCall' = [atCall EXCEPT ![h] = Phase("R")]

\* `if ptr.poll().is_err() { return Async::Block(()); }`
RecvPoll(h) ==
    /\ pc[h] = "r_poll"
    /\ LET cas == compare_and_swap(lock, 0, 1) IN
        /\ lock' = cas.word
        /\ IF cas.prev = 0
             THEN pc' = [pc EXCEPT ![h] = "r_check"] /\ ret' = ret
             ELSE pc' = [pc EXCEPT ![h] = "idle"]
                  /\ ret' = [ret EXCEPT ![h] = Block(NoItem)]
    /\ UNCHANGED <<send, recv, data, rc, role, arg, ghost, test, locks>>

\* `if ptr.data.len() == 0 && ptr.send_count() == 0 { ... }`
RecvCheck(h) ==
    /\ pc[h] = "r_check"
    /\ pc' = [pc EXCEPT ![h] =
                IF drained(data, send_count) THEN "r_rel_err" ELSE "r_pop"]
    /\ UNCHANGED <<core, role, arg, ret, ghost, test, locks>>

\* `let x = ptr.pop();`
RecvPop(h) ==
    /\ pc[h] = "r_pop"
    /\ arg' = [arg EXCEPT ![h] = pop_item(data)]
    /\ data' = pop_rest(data)
    /\ popped' = IF pop_item(data) = NoItem THEN popped
                 ELSE Append(popped, pop_item(data))
    /\ did' = [did EXCEPT ![h] = @ + (Len(data) - Len(pop_rest(data)))]
    /\ pc' = [pc EXCEPT ![h] = "r_rel_ok"]
    /\ UNCHANGED <<send, recv, lock, rc, role, ret,
                   nextItem, sentBy, appended, atCall, clones, drops, test, locks>>

\* `ptr.release(); return Async::Err(());` and `ptr.release(); Async::Ok(x)`
RecvRelease(h) ==
    /\ pc[h] \in {"r_rel_ok", "r_rel_err"}
    /\ lock' = release
    /\ ret' = [ret EXCEPT ![h] = IF pc[h] = "r_rel_ok" THEN Ok(arg[h]) ELSE Err(NoItem)]
    /\ pc' = [pc EXCEPT ![h] = "idle"]
    /\ UNCHANGED <<send, recv, data, rc, role, arg, ghost, test, locks>>

\* ------------------------------------------------- Clone / Drop
\* `self.data.get().send.fetch_add(1,SEQ)` (resp. recv)
CloneAdd(h) ==
    /\ pc[h] = "idle" /\ role[h] \in {"S", "R"}
    /\ Cardinality(Unborn) > Cardinality(Cloning)
    /\ send' = IF role[h] = "S" THEN fetch_add(send, 1) ELSE send
    /\ recv' = IF role[h] = "R" THEN fetch_add(recv, 1) ELSE recv
    /\ clones' = [clones EXCEPT ![role[h]] = @ + 1]
    /\ pc' = [pc EXCEPT ![h] = "c_arc"]
    /\ UNCHANGED <<lock, data, rc, role, arg, ret,
                   nextItem, sentBy, appended, popped, did, atCall, drops, test, locks>>

\* `MRMSSender { data: self.data.clone(), .. }`: the Arc is cloned, the handle exists.
CloneArc(h) ==
    /\ pc[h] = "c_arc"
    /\ LET n == CHOOSE u \in Unborn : \A w \in Unborn : u <= w IN
        /\ role' = [role EXCEPT ![n] = role[h]]
        /\ pc' = [pc EXCEPT ![h] = "idle", ![n] = "idle"]
    /\ rc' = arc_clone(rc)
    /\ UNCHANGED <<send, recv, lock, data, arg, ret, ghost, test, locks>>

\* `self.data.get().send.fetch_sub(1,SEQ)` (resp. recv)
DropSub(h) ==
    /\ pc[h] = "idle" /\ role[h] \in {"S", "R"}
    /\ send' = IF role[h] = "S" THEN fetch_sub(send, 1) ELSE send
    /\ recv' = IF role[h] = "R" THEN fetch_sub(recv, 1) ELSE recv
    /\ drops' = [drops EXCEPT ![role[h]] = @ + 1]
    /\ pc' = [pc EXCEPT ![h] = "d_arc"]
    /\ arg' = [arg EXCEPT ![h] = NoItem]          \* the owner's locals die with it
    /\ ret' = [ret EXCEPT ![h] = NoRet]
    /\ did' = [did EXCEPT ![h] = 0]
    /\ atCall' = [atCall EXCEPT ![h] = "none"]
    /\ UNCHANGED <<lock, data, rc, role, nextItem, sentBy, appended, popped, clones, test, locks>>

\* The handle's field `data: Floater<..>` is dropped after Drop::drop returns.
DropArc(h) ==
    /\ pc[h] = "d_arc"
    /\ rc' = arc_drop(rc)
    /\ pc' = [pc EXCEPT ![h] = "dead"]
    /\ UNCHANGED <<send, recv, lock, data, role, arg, ret, ghost, test, locks>>

\* ------------------------------------------- free-running clients (Spec)
\* Any thread may call send with an item of its own at any time.
Send(h) ==
    /\ nextItem < MaxItems
    /\ SendCall(h, nextItem + 1)
    /\ nextItem' = nextItem + 1
    /\ sentBy' = Append(sentBy, h)
    /\ UNCHANGED <<core, role, appended, popped, clones, drops, test, locks>>

Recv(h) ==
    /\ RecvCall(h)
    /\ UNCHANGED <<core, role, nextItem, sentBy, appended, popped, clones, drops, test, locks>>

Next ==
    \E h \in Handles :
        \/ Send(h) \/ SendPoll(h) \/ SendCheck(h) \/ SendAppend(h) \/ SendRelease(h)
        \/ Recv(h) \/ RecvPoll(h) \/ RecvCheck(h) \/ RecvPop(h) \/ RecvRelease(h)
        \/ CloneAdd(h) \/ CloneArc(h) \/ DropSub(h) \/ DropArc(h)

Spec == Init /\ [][Next]_vars

\* -------------------------------------- test_mrms_channel (mrms.rs:159-200)
\* The test sends 0..10; here the values are 1..TestN (0 stands for None).
\* Handle 1 is `s`, moved into the first thread; handle 2 is `r`, moved into the
\* second.

\* `match s.send(y)`: the first call of an iteration, or `Block(z) => y = z`.
TestSend ==
    /\ x <= TestN /\ ret[1].kind \in {"none", "Block"}
    /\ SendCall(1, x)
    /\ UNCHANGED <<core, role, nextItem, sentBy, appended, popped, clones, drops, test, locks>>

\* `Async::Ok(()) => break`, and the for loop takes the next x.
TestSendOk ==
    /\ pc[1] = "idle" /\ ret[1].kind = "Ok"
    /\ x' = x + 1
    /\ ret' = [ret EXCEPT ![1] = NoRet]
    /\ UNCHANGED <<core, role, pc, arg, ghost, output, locks>>

\* The closure ends (the loop is over, or `panic!("send exploded!")`): `s` is dropped.
TestSendExit ==
    /\ (x > TestN /\ ret[1].kind = "none") \/ ret[1].kind = "Err"
    /\ DropSub(1)

\* `match r.recv()`: the first call, or `continue` after Ok(None) or Block(()).
TestRecv ==
    /\ ret[2].kind \in {"none", "Block"} \/ ret[2] = Ok(NoItem)
    /\ RecvCall(2)
    /\ UNCHANGED <<core, role, nextItem, sentBy, appended, popped, clones, drops, test, locks>>

\* `Option::Some(z) => output.push(z)`
TestRecvPush ==
    /\ pc[2] = "idle" /\ ret[2].kind = "Ok" /\ ret[2].val # NoItem
    /\ output' = Append(output, ret[2].val)
    /\ ret' = [ret EXCEPT ![2] = NoRet]
    /\ UNCHANGED <<core, role, pc, arg, ghost, x, locks>>

\* `Async::Err(()) => break`, the assertions, and `r` is dropped.
TestRecvExit ==
    /\ ret[2].kind = "Err"
    /\ DropSub(2)

SenderThread ==
    \/ TestSend \/ TestSendOk \/ TestSendExit
    \/ SendPoll(1) \/ SendCheck(1) \/ SendAppend(1) \/ SendRelease(1) \/ DropArc(1)

ReceiverThread ==
    \/ TestRecv \/ TestRecvPush \/ TestRecvExit
    \/ RecvPoll(2) \/ RecvCheck(2) \/ RecvPop(2) \/ RecvRelease(2) \/ DropArc(2)

TestNext == SenderThread \/ ReceiverThread

TestSpec == Init /\ [][TestNext]_vars

\* thread::spawn: the operating system runs each of the two threads again and again.
FairTestSpec == TestSpec /\ WF_vars(SenderThread) /\ WF_vars(ReceiverThread)

\* ------------------------------------ spinlock.rs : users of an AtomicLocker
\* Lockers are built in the order of their numbers.
Built(l) == \A k \in Lockers : k < l => lk[k].pc # "none"

\* IntoLock::into_lock
into_lock(l) ==
    /\ lk[l].pc = "none" /\ Built(l)
    /\ lk' = [lk EXCEPT ![l] = [NoLocker EXCEPT !.pc = "idle"]]
    /\ UNCHANGED <<core, threads, ghost, test, now, buf>>

\* IntoLock::into_timeout
into_timeout(l, period) ==
    /\ lk[l].pc = "none" /\ Built(l)
    /\ lk' = [lk EXCEPT ![l] = [NoLocker EXCEPT !.pc = "idle", !.start = now,
                                                !.period = period]]
    /\ UNCHANGED <<core, threads, ghost, test, now, buf>>

\* AtomicLocker::poll, `if self.data.compare_and_swap(0,1,SEQ)==0 { return Ready }`
LockerSwap(l) ==
    /\ lk[l].pc = "idle"
    /\ LET cas == compare_and_swap(lock, 0, 1) IN
        /\ lock' = cas.word
        /\ lk' = [lk EXCEPT ![l] =
                    IF cas.prev = 0
                    THEN [@ EXCEPT !.holds = TRUE, !.ret = "Ready"]
                    ELSE [@ EXCEPT !.pc = "check"]]
    /\ UNCHANGED <<send, recv, data, rc, threads, ghost, test, now, buf>>

\* AtomicLocker::poll, the timeout check after a failed swap
LockerCheck(l) ==
    /\ lk[l].pc = "check"
    /\ lk' = [lk EXCEPT ![l] = [@ EXCEPT !.pc = "idle",
                                  !.ret = check_timeout(lk[l].period, lk[l].start)]]
    /\ UNCHANGED <<core, threads, ghost, test, now, buf>>

\* AtomicLocker::release, called by the user whose poll returned Ready
LockerRelease(l) ==
    /\ lk[l].pc = "idle" /\ lk[l].holds
    /\ lock' = release
    /\ lk' = [lk EXCEPT ![l] = [@ EXCEPT !.holds = FALSE]]
    /\ UNCHANGED <<send, recv, data, rc, threads, ghost, test, now, buf>>

\* Time passes.
Tick ==
    /\ now < MaxTime
    /\ now' = now + 1
    /\ UNCHANGED <<core, threads, ghost, test, lk, buf>>

LockNext ==
    \/ Tick
    \/ \E l \in Lockers :
        \/ into_lock(l) \/ (\E d \in 0..MaxPeriod : into_timeout(l, d))
        \/ LockerSwap(l) \/ LockerCheck(l) \/ LockerRelease(l)

LockSpec == Init /\ [][LockNext]_vars

\* ------------------------------------------ spinlock.rs : Convar (the guard)
\* Convar::is_locked, `self.flag.load(REX)`
is_locked(l) == lk[l].flag

\* Mutant: the resource is handed out without looking at the flag.
data_unchecked(l) == "Some"

\* Convar::data: Some(resource) when this guard holds the lock, None otherwise.
convar_data(l) == IF is_locked(l) THEN "Some" ELSE "None"

\* Mutant: the drop releases whether or not this guard holds the lock.
drop_releases_always(flag) == TRUE

\* Drop for Convar, `if self.is_locked() { self.lock.release(); }`: whether the
\* drop calls release.
drop_releases(flag) == flag

\* IntoConvar::into_convar
into_convar(l) ==
    /\ lk[l].pc = "none" /\ Built(l)
    /\ lk' = [lk EXCEPT ![l] = [NoLocker EXCEPT !.pc = "idle", !.flag = FALSE]]
    /\ UNCHANGED <<core, threads, ghost, test, now, buf>>

\* IntoConvar::timeout_convar
timeout_convar(l, period) ==
    /\ lk[l].pc = "none" /\ Built(l)
    /\ lk' = [lk EXCEPT ![l] = [NoLocker EXCEPT !.pc = "idle", !.flag = FALSE,
                                                !.start = now, !.period = period]]
    /\ UNCHANGED <<core, threads, ghost, test, now, buf>>

\* Convar::poll, `if self.is_locked() { return LockState::Ready; }`
ConvarHeld(l) ==
    /\ lk[l].pc = "idle" /\ is_locked(l)
    /\ lk' = [lk EXCEPT ![l] = [@ EXCEPT !.ret = "Ready"]]
    /\ UNCHANGED <<core, threads, ghost, test, now, buf>>

\* Convar::poll, `let x = self.lock.poll()`: the swap of AtomicLocker::poll
ConvarSwap(l) ==
    /\ lk[l].pc = "idle" /\ ~is_locked(l)
    /\ LET cas == compare_and_swap(lock, 0, 1) IN
        /\ lock' = cas.word
        /\ lk' = [lk EXCEPT ![l] =
                    IF cas.prev = 0
                    THEN [@ EXCEPT !.holds = TRUE, !.pc = "store", !.ret = "none"]
                    ELSE [@ EXCEPT !.pc = "check", !.ret = "none"]]
    /\ UNCHANGED <<send, recv, data, rc, threads, ghost, test, now, buf>>

\* Convar::poll, the inner poll's timeout check; x is not Ready and is returned.
ConvarCheck(l) ==
    /\ lk[l].pc = "check" /\ ~is_locked(l) /\ ~lk[l].holds
    /\ lk' = [lk EXCEPT ![l] = [@ EXCEPT !.pc = "idle",
                                  !.ret = check_timeout(lk[l].period, lk[l].start)]]
    /\ UNCHANGED <<core, threads, ghost, test, now, buf>>

\* Convar::poll, `if x == LockState::Ready { self.flag.store(true, REX); }` and
\* x is returned.
ConvarStore(l) ==
    /\ lk[l].pc = "store"
    /\ lk' = [lk EXCEPT ![l] = [@ EXCEPT !.pc = "idle", !.flag = TRUE, !.ret = "Ready"]]
    /\ UNCHANGED <<core, threads, ghost, test, now, buf>>

\* Drop for Convar: the guard goes out of scope.
ConvarDrop(l) ==
    /\ lk[l].pc = "idle"
    /\ lock' = IF drop_releases(is_locked(l)) THEN release ELSE lock
    /\ lk' = [lk EXCEPT ![l] = [@ EXCEPT !.pc = "dropped",
                                  !.rel = IF drop_releases(is_locked(l))
                                          THEN @ + 1 ELSE @]]
    /\ UNCHANGED <<send, recv, data, rc, threads, ghost, test, now, buf>>

GuardNext ==
    \/ Tick
    \/ \E l \in Lockers :
        \/ into_convar(l) \/ (\E d \in 0..MaxPeriod : timeout_convar(l, d))
        \/ ConvarHeld(l) \/ ConvarSwap(l) \/ ConvarCheck(l) \/ ConvarStore(l)
        \/ ConvarDrop(l)

GuardSpec == Init /\ [][GuardNext]_vars

\* --------------------------- the Ordering arguments and what they publish
SEQ      == "SeqCst"     \* spinlock.rs:52
REX      == "Relaxed"    \* spinlock.rs:53
mrms_REX == "SeqCst"     \* mrms.rs:8
mrms_SEQ == "SeqCst"     \* mrms.rs:51

poll_ordering    == SEQ        \* compare_and_swap(0,1,SEQ) in AtomicLocker::poll
release_ordering == REX        \* store(0,REX) in AtomicLocker::release
count_ordering   == mrms_REX   \* load(REX) in send_count / recv_count
clone_ordering   == mrms_SEQ   \* fetch_add(1,SEQ) / fetch_sub(1,SEQ) in Clone / Drop

\* A store with this ordering makes the writes its thread made before it
\* visible to the thread whose acquiring read sees the stored value.
publishes(o) == o \in {"Release", "AcqRel", "SeqCst"}

\* What locker l's thread reads of the guarded queue: its own last write if
\* that is still on its way to memory, memory otherwise.
view(l) == IF buf[l] = <<>> THEN data ELSE buf[l][Len(buf[l])]

\* The holder pushes an item to the guarded queue (CrappyQueue::push in the
\* module's example): the write is on its way to memory.
HolderWrite(l) ==
    /\ lk[l].pc = "idle" /\ lk[l].holds
    /\ nextItem < MaxItems
    /\ nextItem' = nextItem + 1
    /\ buf' = [buf EXCEPT ![l] = <<append(view(l), nextItem + 1)>>]
    /\ UNCHANGED <<core, threads, sentBy, appended, popped, did, atCall, clones, drops,
                   test, now, lk>>

\* The write reaches memory, where every core sees it.
Flush(l) ==
    /\ buf[l] # <<>>
    /\ data' = buf[l][Len(buf[l])]
    /\ buf' = [buf EXCEPT ![l] = <<>>]
    /\ UNCHANGED <<send, recv, lock, rc, threads, ghost, test, now, lk>>

\* AtomicLocker::release with its Ordering: only a publishing store waits for
\* the holder's writes to have reached memory.
OrderedRelease(l) ==
    /\ publishes(release_ordering) => buf[l] = <<>>
    /\ LockerRelease(l)

OrderNext ==
    \E l \in Lockers :
        \/ into_lock(l) \/ LockerSwap(l) \/ LockerCheck(l)
        \/ HolderWrite(l) \/ Flush(l) \/ OrderedRelease(l)

OrderSpec == Init /\ [][OrderNext]_vars

TypeOK ==
    /\ send \in 0..(Usize - 1) /\ recv \in 0..(Usize - 1) /\ lock \in 0..(Usize - 1)
    /\ \A i \in DOMAIN data : data[i] \in Nat \ {NoItem}
    /\ rc \in Nat
    /\ role \in [Handles -> {"S", "R", "none"}]

\* ===================================================================
\* Properties
\* ===================================================================
Range(q)       == {q[i] : i \in DOMAIN q}
Count(v, q)    == Cardinality({i \in DOMAIN q : q[i] = v})
NoDup(q)       == \A i, j \in DOMAIN q : q[i] = q[j] => i = j
IsPrefix(p, q) == Len(p) <= Len(q) /\ \A i \in DOMAIN p : p[i] = q[i]
Senders        == {h \in Handles : role[h] = "S"}
Receivers      == {h \in Handles : role[h] = "R"}
Returned(h)    == pc[h] = "idle" /\ ret[h] # NoRet

\* C1. Mutual exclusion: at most one thread is between a poll that acquired the
\* lock and its release inside send / recv, so no second poll returns Ready
\* while the lock is held and no two holders mutate the queue at once.
MutualExclusion == Cardinality(InCS) <= 1

\* A holder is about to mutate the queue while another thread's poll was refused.
MutualExclusionWitness ==
    \E h, g \in Handles :
        /\ h # g /\ pc[h] \in {"s_append", "r_pop"}
        /\ pc[g] = "idle" /\ ret[g].kind = "Block"

\* C2. FIFO law of test_mrms_channel: what the receiver has collected is always
\* a prefix of 1..TestN, and it is exactly 1..TestN once recv returned Terminal.
TestSent == [i \in 1..TestN |-> i]

FifoLaw ==
    /\ IsPrefix(output, TestSent)
    /\ (ret[2].kind = "Err" \/ pc[2] \in {"d_arc", "dead"}) => output = TestSent

\* The receiver has seen Terminal with everything collected, after the sender
\* handle was dropped.
FifoLawWitness ==
    /\ ret[2].kind = "Err" /\ pc[1] = "dead"
    /\ output = TestSent

\* C3. Exactly-once delivery: no item is popped twice, a popped item is no longer
\* in the queue, and no two recv calls hold or have returned the same item.
Delivered(h) ==
    IF pc[h] = "r_rel_ok" THEN arg[h]
    ELSE IF role[h] = "R" /\ Returned(h) /\ ret[h].kind = "Ok" THEN ret[h].val
    ELSE NoItem

ExactlyOnce ==
    /\ NoDup(popped) /\ NoDup(data)
    /\ Range(popped) \cap Range(data) = {}
    /\ \A h \in Handles : Delivered(h) # NoItem => Delivered(h) \in Range(popped)
    /\ \A h, g \in Handles :
            (h # g /\ Delivered(h) # NoItem) => Delivered(h) # Delivered(g)

\* Two Receiver clones have each been handed an item.
ExactlyOnceWitness ==
    \E h, g \in Receivers :
        /\ h # g /\ Delivered(h) # NoItem /\ Delivered(g) # NoItem
        /\ Returned(h) /\ Returned(g)

\* C4 as stated. Drain-then-close: a recv call begun after every Sender was
\* dropped and the queue was empty returns Terminal.
DrainThenCloseAsStated ==
    \A h \in Receivers :
        (Returned(h) /\ atCall[h] = "closed") => ret[h].kind = "Err"

\* C4 as amended. Once every Sender is dropped the queue only shrinks, in append
\* order; a recv call begun then never returns Success(None); begun after the
\* queue is empty it never pops and returns Terminal, or WouldBlock when another
\* Receiver holds the lock; and Terminal is returned only with the queue empty.
DrainThenClose ==
    /\ IsPrefix(popped, appended)
    /\ Gone("S") => appended = popped \o data
    /\ \A h \in Receivers :
        /\ atCall[h] = "closed" => pc[h] \notin {"r_pop", "r_rel_ok"}
        /\ (Returned(h) /\ atCall[h] = "closed") => ret[h].kind \in {"Err", "Block"}
        /\ (Returned(h) /\ atCall[h] = "draining") => ret[h] # Ok(NoItem)
        /\ (pc[h] = "r_rel_err" \/ (Returned(h) /\ ret[h].kind = "Err")) =>
                (Len(data) = 0 /\ send = 0)

\* After the senders are gone a buffered item was drained and a later call
\* returned Terminal, while another Receiver's call was refused the lock.
DrainThenCloseWitness ==
    \E h, g \in Receivers :
        /\ h # g /\ Gone("S") /\ Len(popped) >= 1
        /\ Returned(h) /\ atCall[h] = "closed" /\ ret[h].kind = "Err"
        /\ Returned(g) /\ atCall[g] = "closed" /\ ret[g].kind = "Block"

\* C5 as stated. Reject-then-return: a send call begun after every Receiver was
\* dropped returns Terminal(item).
RejectThenReturnAsStated ==
    \A h \in Senders :
        (Returned(h) /\ atCall[h] = "closed") => ret[h] = Err(arg[h])

\* C5 as amended. A send call begun after every Receiver was dropped never
\* appends; it returns the caller's item, as Terminal(item), or as
\* WouldBlock(item) when another Sender holds the lock.
RejectThenReturn ==
    \A h \in Senders :
        atCall[h] = "closed" =>
            /\ pc[h] \notin {"s_append", "s_rel_ok"}
            /\ did[h] = 0
            /\ arg[h] \notin Range(data)
            /\ Returned(h) => ret[h] \in {Err(arg[h]), Block(arg[h])}

\* With an item still queued and no receiver left, a Sender got its item back
\* as Terminal while a second Sender is alive.
RejectThenReturnWitness ==
    \E h, g \in Senders :
        /\ h # g /\ Gone("R") /\ Len(data) >= 1 /\ pc[g] = "idle"
        /\ Returned(h) /\ atCall[h] = "closed" /\ ret[h] = Err(arg[h])

\* C6. No message is accepted without a destination: ChannelCore::append never
\* runs in a send call at a moment when receivers_alive is 0.
NeverAcceptedWithoutReceiver ==
    [][\A h \in Handles :
          (pc[h] = "s_append" /\ pc'[h] = "s_rel_ok") => recv # 0]_vars

\* C7. Counter conservation: each liveness counter is 1 + clones - drops of its
\* role, which is never negative (the usize never wraps), and it counts the
\* handles of the role that exist or are being made and are not being dropped.
Counted(r) ==
    {h \in Handles : role[h] = r /\ pc[h] \notin {"unborn", "dead", "d_arc"}}
Making(r)  == {h \in Handles : role[h] = r /\ pc[h] = "c_arc"}

CounterConservation ==
    /\ send = 1 + clones["S"] - drops["S"]
    /\ recv = 1 + clones["R"] - drops["R"]
    /\ send = Cardinality(Counted("S")) + Cardinality(Making("S"))
    /\ recv = Cardinality(Counted("R")) + Cardinality(Making("R"))

\* A Sender was cloned, both Senders were dropped, and the counter is back at 0.
CounterConservationWitness ==
    /\ clones["S"] = 1 /\ drops["S"] = 2 /\ send = 0
    /\ recv = 1

\* C8 as stated. Round trip: under fair scheduling of the two threads of the
\* test, the first value sent is eventually received.
RoundTripAsStated == <>(1 \in Range(output))

\* C8 as amended. Under fair scheduling a value is never collected twice, and a
\* value whose send returned Success (it was appended) is eventually collected.
RoundTrip ==
    /\ [](NoDup(output))
    /\ \A v \in 1..TestN : (v \in Range(appended)) ~> (v \in Range(output))

\* The sender went through WouldBlock, and its first value was collected.
RoundTripWitness ==
    /\ 1 \in Range(output)
    /\ x = 2 /\ ret[1].kind = "Block"

\* C9. Item conservation in send: a call that returned Success left its item in
\* the queue exactly once, at the tail; a call that returned WouldBlock or
\* Terminal handed the same item back and never enqueued it; Terminal is only
\* returned with receivers_alive at 0.
Enqueued(v) == Count(v, data) + Count(v, popped)

ItemConservation ==
    \A h \in Senders :
        /\ pc[h] \in {"s_poll", "s_check", "s_append", "s_rel_err"} =>
                Enqueued(arg[h]) = 0
        /\ pc[h] = "s_rel_ok" =>
                /\ Len(data) >= 1 /\ data[Len(data)] = arg[h]
                /\ Enqueued(arg[h]) = 1
        /\ Returned(h) =>
                \/ ret[h] = Ok(NoItem) /\ Enqueued(arg[h]) = 1 /\ did[h] = 1
                \/ ret[h] = Block(arg[h]) /\ Enqueued(arg[h]) = 0 /\ did[h] = 0
                \/ ret[h] = Err(arg[h]) /\ Enqueued(arg[h]) = 0 /\ did[h] = 0
                   /\ recv = 0

\* One send was accepted and its item is queued; another found no receiver
\* and got its item back.
ItemConservationWitness ==
    \E h, g \in Senders :
        /\ h # g
        /\ Returned(h) /\ ret[h] = Ok(NoItem) /\ arg[h] \in Range(data)
        /\ Returned(g) /\ ret[g] = Err(arg[g])

\* C10. Deadline law: a failed poll of a locker with deadline d returns Block
\* when less than d has elapsed since the locker was built and Timeout when at
\* least d has; a locker without a deadline never returns Timeout.
FailedPollReturns(l) == lk[l].pc = "check" /\ lk'[l].pc = "idle"

DeadlineLaw ==
    /\ [][\A l \in Lockers : FailedPollReturns(l) =>
            /\ lk'[l].ret \in {"Block", "Timeout"}
            /\ (lk[l].period # None /\ now - lk[l].start < lk[l].period) =>
                    lk'[l].ret = "Block"
            /\ lk'[l].ret = "Timeout" =>
                    (lk[l].period # None /\ now - lk[l].start >= lk[l].period)]_vars
    /\ [](\A l \in Lockers : lk[l].period = None => lk[l].ret # "Timeout")

\* With the lock held, one deadline-configured locker was told Timeout and
\* another, built later, Block.
DeadlineLawWitness ==
    \E l, m \in Lockers :
        /\ lock = 1
        /\ lk[l].ret = "Timeout" /\ lk[l].period > 0
        /\ lk[m].ret = "Block" /\ lk[m].period # None /\ lk[m].pc = "idle"

\* C11. Guard release discipline: a guard that goes out of scope stores `free`
\* to the lock word exactly once when one of its own polls had returned Ready,
\* and leaves the lock word alone when none had; so the drop of a non-holder
\* never unlocks a lock another guard holds, and no guard releases twice.
GuardDrops(l) == lk[l].pc = "idle" /\ lk'[l].pc = "dropped"

GuardRelease ==
    /\ [][\A l \in Lockers : GuardDrops(l) =>
            IF lk[l].holds
            THEN lock' = 0 /\ lk'[l].rel = lk[l].rel + 1
            ELSE lock' = lock /\ lk'[l].rel = lk[l].rel]_vars
    /\ [](\A l \in Lockers :
            /\ lk[l].rel <= 1
            /\ lk[l].rel = 1 => lk[l].pc = "dropped" /\ lk[l].holds
            /\ (lk[l].holds /\ lk[l].pc # "dropped") => lock = 1)

\* A guard that was refused and never held the lock has been dropped, and so
\* has the guard that held it, whose drop made the one release.
GuardReleaseWitness ==
    \E l, m \in Lockers :
        /\ lk[l].pc = "dropped" /\ ~lk[l].holds /\ lk[l].ret \in {"Block", "Timeout"}
        /\ lk[m].pc = "dropped" /\ lk[m].holds /\ lk[m].rel = 1

\* C12. Guarded access only while held: a fresh guard is not locked and hands
\* out nothing; whenever the guard's thread can look, data() is the resource
\* exactly when is_locked() is true, which is exactly when one of this guard's
\* polls returned Ready; a poll that finds the lock word free returns Ready and
\* makes is_locked() true; at most one live guard has data() = the resource.
Live(l) == lk[l].pc \in {"idle", "check", "store"}

GuardedAccess ==
    /\ [](\A l \in Lockers :
            /\ lk[l].pc = "idle" =>
                  /\ (convar_data(l) = "Some") = is_locked(l)
                  /\ is_locked(l) = lk[l].holds
                  /\ lk[l].ret = "Ready" => is_locked(l)
                  /\ lk[l].ret = "none" => (~is_locked(l) /\ convar_data(l) = "None")
            /\ (Live(l) /\ ~lk[l].holds) => convar_data(l) = "None")
    /\ [](Cardinality({l \in Lockers : Live(l) /\ convar_data(l) = "Some"}) <= 1)
    /\ [][\A l \in Lockers :
            /\ (lk[l].pc = "idle" /\ ~is_locked(l) /\ lk'[l].pc \in {"store", "check"}
                    /\ lock = 0) => (lk'[l].pc = "store" /\ lock' = 1)
            /\ (lk[l].pc = "store" /\ lk'[l] # lk[l]) =>
                    (lk'[l].ret = "Ready" /\ is_locked(l)' /\ lk'[l].pc = "idle")]_vars

\* One guard holds the lock and hands out the resource; another, polled while
\* the lock was held, hands out nothing.
GuardedAccessWitness ==
    \E l, m \in Lockers :
        /\ lk[l].pc = "idle" /\ lk[l].ret = "Ready" /\ convar_data(l) = "Some"
        /\ lk[m].pc = "idle" /\ lk[m].ret \in {"Block", "Timeout"}
        /\ convar_data(m) = "None"

\* C13. recv outcome table: a recv that fails to get the lock returns
\* WouldBlock and leaves the queue alone; one that gets it returns Terminal
\* only if the queue is empty and senders_alive is 0 when it looks, returns
\* Success(None) if the queue is empty while senders_alive > 0, and returns
\* Success(Some(front)), removing exactly the front item, whenever the queue
\* is non-empty, whatever senders_alive is.
RecvOutcome ==
    /\ [][\A h \in Handles :
            /\ (pc[h] = "r_poll" /\ pc'[h] = "idle") =>
                    (ret'[h] = Block(NoItem) /\ data' = data /\ lock' = lock)
            /\ (pc[h] = "r_check" /\ pc'[h] # "r_check") =>
                    /\ (pc'[h] = "r_rel_err") = (Len(data) = 0 /\ send = 0)
                    /\ (pc'[h] = "r_pop") = (Len(data) > 0 \/ send > 0)
                    /\ data' = data
            /\ (pc[h] = "r_pop" /\ pc'[h] # "r_pop") =>
                    IF Len(data) = 0
                    THEN arg'[h] = NoItem /\ data' = data
                    ELSE arg'[h] = Head(data) /\ data' = Tail(data)
            /\ (pc[h] = "r_rel_ok" /\ pc'[h] = "idle") =>
                    (ret'[h] = Ok(arg[h]) /\ data' = data)
            /\ (pc[h] = "r_rel_err" /\ pc'[h] = "idle") =>
                    (ret'[h] = Err(NoItem) /\ data' = data)]_vars
    /\ [](\A h \in Handles :
            /\ pc[h] = "r_rel_err" => (Len(data) = 0 /\ send = 0)
            /\ (role[h] = "R" /\ Returned(h)) =>
                    did[h] = (IF ret[h].kind = "Ok" /\ ret[h].val # NoItem THEN 1 ELSE 0))

\* One recv found the queue empty with a sender alive and returned
\* Success(None); another, begun after the last sender was dropped, returned
\* the buffered item.
RecvOutcomeWitness ==
    \E h, g \in Receivers :
        /\ Returned(h) /\ ret[h] = Ok(NoItem) /\ atCall[h] = "open"
        /\ Returned(g) /\ ret[g].kind = "Ok" /\ ret[g].val # NoItem
        /\ atCall[g] = "draining"

\* C14. Lock-serialized ordering with many handles: with any number of Sender
\* and Receiver clones, the items popped so far, in pop order, are a prefix of
\* the items appended so far, in append order (the rest being the queue); in
\* particular the items of one sender are queued and delivered in the order
\* that sender sent them.
InSendOrder(q) ==
    \A i, j \in DOMAIN q :
        (i < j /\ sentBy[q[i]] = sentBy[q[j]]) => q[i] < q[j]

SerializedOrder ==
    /\ IsPrefix(popped, appended)
    /\ appended = popped \o data
    /\ NoDup(appended)
    /\ InSendOrder(appended) /\ InSendOrder(popped)

\* Two senders and a receiver: the item handed to send second was appended
\* first, and both have been popped in append order.
SerializedOrderWitness ==
    /\ Len(popped) = 2 /\ popped = appended
    /\ popped[1] > popped[2]
    /\ sentBy[popped[1]] # sentBy[popped[2]]

\* C15. Sticky timeout: once the deadline of a deadline-configured lock has
\* elapsed it stays elapsed, and every poll that then fails to acquire returns
\* Timeout; a poll that finds the lock word free still acquires it and returns
\* Ready, deadline elapsed or not.
Expired(l) == lk[l].period # None /\ now - lk[l].start >= lk[l].period

StickyTimeout ==
    [][\A l \in Lockers :
        /\ Expired(l) => Expired(l)'
        /\ (FailedPollReturns(l) /\ Expired(l)) => lk'[l].ret = "Timeout"
        /\ (lk[l].pc = "idle" /\ lock = 0 /\ lk'[l] # lk[l]) =>
                (lock' = 1 /\ lk'[l].holds /\ lk'[l].ret = "Ready"
                    /\ lk'[l].pc = "idle")]_vars

\* A lock whose deadline had elapsed when it was built (period 0) has acquired
\* the lock word, and another deadline-configured lock is told Timeout.
StickyTimeoutWitness ==
    \E l, m \in Lockers :
        /\ lk[l].period = 0 /\ lk[l].holds /\ lk[l].ret = "Ready" /\ lock = 1
        /\ l # m /\ lk[m].period # None /\ lk[m].ret = "Timeout" /\ lk[m].pc = "idle"

\* C16. Memory ordering: every atomic operation on the lock word (the
\* compare-and-swap of poll, the store of release) and on the liveness counters
\* is sequentially consistent, so that every write to the guarded queue made
\* by a holder before its release is visible to the next thread whose poll
\* returns Ready: while one thread holds the lock no other thread's write is
\* still on its way to memory.
ReleaseVisibility ==
    \A l, m \in Lockers : (l # m /\ lk[m].holds) => buf[l] = <<>>

\* C17. Storage lifetime independent of the liveness counters: the shared
\* ChannelCore is freed only when the last handle of either role is dropped,
\* so it is there while any handle exists, also after senders_alive or
\* receivers_alive has reached 0, and no send, recv, clone or counter decrement
\* of a drop touches it after it is freed; whenever no clone or drop is in
\* progress the reference count equals senders_alive + receivers_alive.
Existing  == {h \in Handles : pc[h] \notin {"unborn", "dead"}}
Quiescent == \A h \in Handles : pc[h] \notin {"c_arc", "d_arc"}

StorageLifetime ==
    /\ rc = Cardinality(Existing)
    /\ (rc = 0) = (\A h \in Handles : role[h] # "none" => pc[h] = "dead")
    /\ \A h \in Existing : rc > 0
    /\ Quiescent => rc = send + recv

\* Every sender has been dropped and senders_alive is 0, yet two receivers
\* exist and one of them is inside recv, about to pop from the shared queue.
StorageLifetimeWitness ==
    /\ send = 0 /\ Gone("S") /\ Quiescent
    /\ rc = 2 /\ recv = 2
    /\ \E h \in Receivers : pc[h] = "r_pop"

\* C18. Lock never leaked: every send or recv that acquires the lock releases
\* it on each of its return paths, a call that returns WouldBlock never writes
\* the lock word, the lock word is 0 whenever no thread is between a
\* successful poll and its release, and it only ever holds 0 or 1.
Releasing == {"s_rel_ok", "s_rel_err", "r_rel_ok", "r_rel_err"}

LockNeverLeaked ==
    /\ [](lock \in {0, 1})
    /\ [](lock = IF InCS = {} THEN 0 ELSE 1)
    /\ [](\A h \in Handles :
            (Returned(h) /\ ret[h].kind \in {"Ok", "Err"}) => h \notin InCS)
    /\ [][\A h \in Handles :
            /\ (pc[h] \in {"s_poll", "r_poll"} /\ pc'[h] = "idle") =>
                    (ret'[h].kind = "Block" /\ lock' = lock)
            /\ (h \in InCS /\ pc'[h] = "idle") =>
                    (pc[h] \in Releasing /\ lock' = 0
                        /\ ret'[h].kind = (IF pc[h] \in {"s_rel_ok", "r_rel_ok"}
                                           THEN "Ok" ELSE "Err"))]_vars

\* The lock is free again after one send returned Terminal through its early
\* return and another send, refused the lock meanwhile, returned WouldBlock.
LockNeverLeakedWitness ==
    /\ lock = 0 /\ InCS = {}
    /\ \E h, g \in Senders :
        /\ Returned(h) /\ ret[h].kind = "Err"
        /\ Returned(g) /\ ret[g].kind = "Block"

\* C19. Terminal on recv is sound and permanent: whenever a recv returns
\* Terminal, every item a send appended has been popped, every sender has been
\* dropped and no send is in progress; and from then on the queue stays empty,
\* senders_alive stays 0 and no recv pops an item or returns Success (the
\* condition Over holds when a Terminal is returned and no step ends it).
Terminal(h) ==
    /\ role[h] = "R"
    /\ pc[h] = "r_rel_err" \/ (Returned(h) /\ ret[h].kind = "Err")

Over ==
    /\ Len(data) = 0 /\ send = 0
    /\ \A g \in Handles : pc[g] \notin {"r_pop", "r_rel_ok"}
    /\ \A g \in Senders : pc[g] \in {"d_arc", "dead"}

TerminalSound ==
    /\ [](\A h \in Handles : Terminal(h) => (Over /\ popped = appended))
    /\ [][Over => Over']_vars

\* One receiver has returned Terminal and its clone, calling recv after that,
\* is about to return Terminal as well; the item that was sent has been popped.
TerminalSoundWitness ==
    \E h, g \in Receivers :
        /\ Returned(h) /\ ret[h].kind = "Err"
        /\ pc[g] = "r_rel_err"
        /\ Len(popped) > 0

\* C20. The capacity hint is never a bound: in a channel created with hint c,
\* a send that holds the lock and found receivers_alive > 0 appends its item
\* and returns Success at every queue length, lengths of c and more included;
\* whether a send appends depends on receivers_alive alone, not on the queue
\* length or on c.
HintNeverBounds ==
    [][\A h \in Handles :
        /\ (pc[h] = "s_check" /\ pc'[h] # "s_check") =>
                (pc'[h] = "s_append") = (recv > 0)
        /\ (pc[h] = "s_append" /\ pc'[h] # "s_append") =>
                /\ data' = Append(data, arg[h])
                /\ Len(data') = Len(data) + 1
                /\ pc'[h] = "s_rel_ok"
        /\ (pc[h] = "s_rel_ok" /\ pc'[h] = "idle") => ret'[h] = Ok(NoItem)]_vars

\* A send returned Success for an item appended to a queue that already held
\* as many items as the hint.
HintNeverBoundsWitness ==
    /\ Len(data) > CapacityHint
    /\ \E h \in Senders :
        /\ Returned(h) /\ ret[h] = Ok(NoItem)
        /\ data[Len(data)] = arg[h]
====
